---- MODULE Spec2Model ----
(***************************************************************************)
(* One invocation of examples/plugin/example_plugin.py, the Python         *)
(* external plugin of EnvCLI: the process reads one JSON document from     *)
(* stdin, dispatches on its "action", writes one JSON response to stdout,  *)
(* flushes and terminates.                                                 *)
(*                                                                         *)
(* JSON documents and Python objects are modelled as tagged trees; the     *)
(* codec (json.load / json.dump) converts between the two.  The standard   *)
(* output stream is taken to accept every write and flush.                 *)
(***************************************************************************)
EXTENDS Integers, Sequences, FiniteSets, TLC

VARIABLES
    stdin,          \* what the host wrote to the input stream
    reads,          \* how many times the input stream has been read
    pc,             \* position of the process in main()
    request,        \* main: request (a Python object once decoded)
    response,       \* main: response / error_response (a Python dict)
    caught,         \* the exception caught by `except Exception as e`
    stdout_buf,     \* documents written to sys.stdout, not yet flushed
    stdout,         \* documents the host can observe on the output stream
    stderr,         \* diagnostic lines printed to sys.stderr
    exit_status     \* <<>> while running, <<code>> once terminated

vars == <<stdin, reads, pc, request, response, caught,
          stdout_buf, stdout, stderr, exit_status>>

(***************************************************************************)
(* Bounds.                                                                 *)
(***************************************************************************)
\* number of distinct readings time.time() may return
ClockTicks == 2

(***************************************************************************)
(* Python objects.                                                         *)
(***************************************************************************)
EmptyMap == [k \in {} |-> k]

PyNone == [t |-> "NoneType"]
PyStr(s) == [t |-> "str", s |-> s]
PyInt(n) == [t |-> "int", n |-> n]
PyFloat(w, f) == [t |-> "float", whole |-> w, frac |-> f]
PyBool(b) == [t |-> "bool", b |-> b]
PyList(elems) == [t |-> "list", elems |-> elems]
PyDict(items) == [t |-> "dict", items |-> items]

\* insertion order of the keys of the dicts that are ever formatted
KeyOrder == <<"command", "args", "debug">>

RECURSIVE py_repr(_)
py_repr_elems(elems, i) ==
    (IF i > 1 THEN ", " ELSE "") \o py_repr(elems[i])

RECURSIVE join_list(_, _)
join_list(elems, i) ==
    IF i > Len(elems) THEN ""
    ELSE py_repr_elems(elems, i) \o join_list(elems, i + 1)

RECURSIVE join_dict(_, _, _)
join_dict(items, i, first) ==
    IF i > Len(KeyOrder) THEN ""
    ELSE IF KeyOrder[i] \in DOMAIN items
         THEN (IF first THEN "" ELSE ", ")
                \o "'" \o KeyOrder[i] \o "': " \o py_repr(items[KeyOrder[i]])
                \o join_dict(items, i + 1, FALSE)
         ELSE join_dict(items, i + 1, first)

\* repr(v)
py_repr(v) ==
    CASE v.t = "NoneType" -> "None"
      [] v.t = "str"      -> "'" \o v.s \o "'"
      [] v.t = "int"      -> ToString(v.n)
      [] v.t = "float"    -> ToString(v.whole) \o "." \o ToString(v.frac)
      [] v.t = "bool"     -> IF v.b THEN "True" ELSE "False"
      [] v.t = "list"     -> "[" \o join_list(v.elems, 1) \o "]"
      [] v.t = "dict"     -> "{" \o join_dict(v.items, 1, TRUE) \o "}"

\* str(v), which is also what an f-string substitutes for {v}
py_str(v) == IF v.t = "str" THEN v.s ELSE py_repr(v)

\* bool(v): the truth value `not v` negates
truthy(v) ==
    CASE v.t = "NoneType" -> FALSE
      [] v.t = "str"      -> v.s /= ""
      [] v.t = "int"      -> v.n /= 0
      [] v.t = "float"    -> ~(v.whole = 0 /\ v.frac = 0)
      [] v.t = "bool"     -> v.b
      [] v.t = "list"     -> Len(v.elems) > 0
      [] v.t = "dict"     -> DOMAIN v.items /= {}

\* whether hash(v) succeeds, as a dict lookup by v needs
hashable(v) == v.t \notin {"list", "dict"}

\* d.get(key, default) on a dict d
dict_get(d, key, default) ==
    IF key \in DOMAIN d.items THEN d.items[key] ELSE default

(***************************************************************************)
(* Outcome of a Python call: a returned value or a raised exception, with  *)
(* the lines it printed to sys.stderr on the way.                          *)
(***************************************************************************)
Return(value, printed) == [raised |-> FALSE, value |-> value, printed |-> printed]
Raise(message, printed) == [raised |-> TRUE, exc |-> message, printed |-> printed]

\* v.get(...) on an object whose type has no such attribute
NoAttrGet(v) == Raise("'" \o v.t \o "' object has no attribute 'get'", <<>>)

(***************************************************************************)
(* JSON documents and the codec.                                           *)
(***************************************************************************)
JNull == [j |-> "null"]
JString(s) == [j |-> "string", s |-> s]
JNumber(n) == [j |-> "number", n |-> n]
JBool(b) == [j |-> IF b THEN "true" ELSE "false"]
JArray(elems) == [j |-> "array", elems |-> elems]
JObject(members) == [j |-> "object", members |-> members]

\* json.loads: the Python object a JSON document decodes to
RECURSIVE json_decode(_)
json_decode(d) ==
    CASE d.j = "null"   -> PyNone
      [] d.j = "string" -> PyStr(d.s)
      [] d.j = "number" -> PyInt(d.n)
      [] d.j = "true"   -> PyBool(TRUE)
      [] d.j = "false"  -> PyBool(FALSE)
      [] d.j = "array"  -> PyList([i \in DOMAIN d.elems |-> json_decode(d.elems[i])])
      [] d.j = "object" -> PyDict([k \in DOMAIN d.members |-> json_decode(d.members[k])])

\* json.dumps: the JSON document a Python object encodes to
RECURSIVE json_encode(_)
json_encode(v) ==
    CASE v.t = "NoneType" -> JNull
      [] v.t = "str"      -> JString(v.s)
      [] v.t = "int"      -> JNumber(v.n)
      [] v.t = "float"    -> [j |-> "number", whole |-> v.whole, frac |-> v.frac]
      [] v.t = "bool"     -> JBool(v.b)
      [] v.t = "list"     -> JArray([i \in DOMAIN v.elems |-> json_encode(v.elems[i])])
      [] v.t = "dict"     -> JObject([k \in DOMAIN v.items |-> json_encode(v.items[k])])

(***************************************************************************)
(* The plugin: metadata, the four hook handlers and the hook registry.     *)
(***************************************************************************)
\* sys.version.split()[0] of the interpreter that runs the plugin
python_version == "3.11.6"

\* the readings time.time() may return
Clock == { PyFloat(1793668225 + i, 5 * i) : i \in 1..ClockTicks }

\* (the non-ASCII characters of "description" are written as the \uXXXX
\* escapes json.dump emits for them)
get_metadata ==
    PyDict([id |-> PyStr("python-example"),
            name |-> PyStr("Python Example Plugin"),
            version |-> PyStr("1.0.0"),
            description |-> PyStr("Python \\u5916\\u90e8\\u63d2\\u4ef6\\u793a\\u4f8b"),
            author |-> PyStr("EnvCLI Team"),
            plugin_type |-> PyStr("ExternalExecutable"),
            hooks |-> PyList(<<PyStr("PreCommand"), PyStr("PostCommand"),
                               PyStr("PreRun"), PyStr("PostRun")>>),
            extensions |-> PyList(<<>>),
            config_schema |-> PyNone,
            enabled |-> PyBool(TRUE),
            dependencies |-> PyList(<<>>),
            platforms |-> PyList(<<PyStr("Windows"), PyStr("Linux"), PyStr("MacOS")>>),
            envcli_version |-> PyNone])

HookResult(modified_env, plugin_data, continue_execution, message) ==
    PyDict([modified_env |-> modified_env,
            plugin_data |-> plugin_data,
            continue_execution |-> continue_execution,
            message |-> message])

\* variant: context["command"] in place of context.get("command", "unknown")
handle_pre_command_subscript(context, now) ==
    IF context.t /= "dict" THEN NoAttrGet(context)
    ELSE IF "command" \notin DOMAIN context.items THEN Raise("'command'", <<>>)
    ELSE LET command == context.items["command"]
             args == dict_get(context, "args", PyList(<<>>))
         IN  Return(
               HookResult(
                 PyDict([PYTHON_PLUGIN |-> PyStr("active"),
                         LAST_COMMAND |-> command,
                         COMMAND_TIME |-> PyStr(py_str(now))]),
                 PyDict(EmptyMap),
                 PyBool(TRUE),
                 PyStr("Python plugin processed pre-command: " \o py_str(command))),
               <<"[PythonPlugin] PreCommand: " \o py_str(command)
                    \o " " \o py_str(args)>>)

\* `now` is what time.time() returns during the call
handle_pre_command(context, now) ==
    IF context.t /= "dict" THEN NoAttrGet(context)
    ELSE LET command == dict_get(context, "command", PyStr("unknown"))
             args == dict_get(context, "args", PyList(<<>>))
         IN  Return(
               HookResult(
                 PyDict([PYTHON_PLUGIN |-> PyStr("active"),
                         LAST_COMMAND |-> command,
                         COMMAND_TIME |-> PyStr(py_str(now))]),
                 PyDict(EmptyMap),
                 PyBool(TRUE),
                 PyStr("Python plugin processed pre-command: " \o py_str(command))),
               <<"[PythonPlugin] PreCommand: " \o py_str(command)
                    \o " " \o py_str(args)>>)

handle_post_command(context, now) ==
    IF context.t /= "dict" THEN NoAttrGet(context)
    ELSE LET command == dict_get(context, "command", PyStr("unknown"))
         IN  Return(
               HookResult(
                 PyDict(EmptyMap),
                 PyDict([python_executed |-> PyStr("true"),
                         timestamp |-> PyStr(py_str(now))]),
                 PyBool(TRUE),
                 PyStr("Python plugin processed post-command: " \o py_str(command))),
               <<"[PythonPlugin] PostCommand: " \o py_str(command)>>)

handle_pre_run(context) ==
    IF context.t /= "dict" THEN NoAttrGet(context)
    ELSE LET command == dict_get(context, "command", PyStr("unknown"))
         IN  Return(
               HookResult(
                 PyDict([PYTHON_RUN_MODE |-> PyStr("example"),
                         PYTHON_VERSION |-> PyStr(python_version)]),
                 PyDict(EmptyMap),
                 PyBool(TRUE),
                 PyStr("Python plugin pre-run hook")),
               <<"[PythonPlugin] PreRun: " \o py_str(command)>>)

handle_post_run(context) ==
    IF context.t /= "dict" THEN NoAttrGet(context)
    ELSE LET command == dict_get(context, "command", PyStr("unknown"))
         IN  Return(
               HookResult(PyDict(EmptyMap), PyDict(EmptyMap), PyBool(TRUE),
                          PyStr("Python plugin post-run hook")),
               <<"[PythonPlugin] PostRun: " \o py_str(command)>>)

\* the keys of `handlers`
handlers == {"PreCommand", "PostCommand", "PreRun", "PostRun"}

\* variant: a default that holds only the flag
default_result_sparse ==
    PyDict([continue_execution |-> PyBool(TRUE)])

\* the result returned when handlers.get(hook_type) finds nothing
default_result ==
    HookResult(PyDict(EmptyMap), PyDict(EmptyMap), PyBool(TRUE), PyNone)

\* variant: handlers[hook_type] in place of handlers.get(hook_type)
execute_hook_subscript(hook_type, context, now) ==
    IF ~hashable(hook_type)
    THEN Raise("unhashable type: '" \o hook_type.t \o "'", <<>>)
    ELSE IF hook_type.t = "str" /\ hook_type.s \in handlers
    THEN CASE hook_type.s = "PreCommand"  -> handle_pre_command(context, now)
           [] hook_type.s = "PostCommand" -> handle_post_command(context, now)
           [] hook_type.s = "PreRun"      -> handle_pre_run(context)
           [] hook_type.s = "PostRun"     -> handle_post_run(context)
    ELSE Raise(py_repr(hook_type), <<>>)

execute_hook(hook_type, context, now) ==
    IF ~hashable(hook_type)
    THEN Raise("unhashable type: '" \o hook_type.t \o "'", <<>>)
    ELSE IF hook_type.t = "str" /\ hook_type.s \in handlers
    THEN CASE hook_type.s = "PreCommand"  -> handle_pre_command(context, now)
           [] hook_type.s = "PostCommand" -> handle_post_command(context, now)
           [] hook_type.s = "PreRun"      -> handle_pre_run(context)
           [] hook_type.s = "PostRun"     -> handle_post_run(context)
    ELSE Return(default_result, <<>>)

(***************************************************************************)
(* main(): the branches of the dispatch on `action`.                       *)
(***************************************************************************)
\* variant: the descriptor takes its config_schema from the request
branch_metadata_with_config(req) ==
    Return(PyDict([success |-> PyBool(TRUE),
                   metadata |-> PyDict([k \in DOMAIN get_metadata.items |->
                                  IF k = "config_schema"
                                  THEN dict_get(req, "config", PyNone)
                                  ELSE get_metadata.items[k]])]), <<>>)

branch_metadata(req) ==
    Return(PyDict([success |-> PyBool(TRUE), metadata |-> get_metadata]), <<>>)

\* variant: request["hook_type"] in place of request.get("hook_type")
branch_execute_hook_subscript(req, now) ==
    IF "hook_type" \notin DOMAIN req.items THEN Raise("'hook_type'", <<>>)
    ELSE
    LET hook_type == req.items["hook_type"]
        context == dict_get(req, "context", PyDict(EmptyMap))
    IN  IF ~truthy(hook_type)
        THEN Return(PyDict([success |-> PyBool(FALSE),
                            error |-> PyStr("Missing hook_type")]), <<>>)
        ELSE LET r == execute_hook(hook_type, context, now)
             IN  IF r.raised THEN r
                 ELSE Return(PyDict([success |-> PyBool(TRUE), result |-> r.value]),
                             r.printed)

\* variant: `if hook_type is None` in place of `if not hook_type`
branch_execute_hook_is_none(req, now) ==
    LET hook_type == dict_get(req, "hook_type", PyNone)
        context == dict_get(req, "context", PyDict(EmptyMap))
    IN  IF hook_type = PyNone
        THEN Return(PyDict([success |-> PyBool(FALSE),
                            error |-> PyStr("Missing hook_type")]), <<>>)
        ELSE LET r == execute_hook(hook_type, context, now)
             IN  IF r.raised THEN r
                 ELSE Return(PyDict([success |-> PyBool(TRUE), result |-> r.value]),
                             r.printed)

branch_execute_hook(req, now) ==
    LET hook_type == dict_get(req, "hook_type", PyNone)
        context == dict_get(req, "context", PyDict(EmptyMap))
    IN  IF ~truthy(hook_type)
        THEN Return(PyDict([success |-> PyBool(FALSE),
                            error |-> PyStr("Missing hook_type")]), <<>>)
        ELSE LET r == execute_hook(hook_type, context, now)
             IN  IF r.raised THEN r
                 ELSE Return(PyDict([success |-> PyBool(TRUE), result |-> r.value]),
                             r.printed)

branch_initialize(req) ==
    LET config == dict_get(req, "config", PyDict(EmptyMap))
    IN  Return(PyDict([success |-> PyBool(TRUE)]),
               <<"[PythonPlugin] Initialized with config: " \o py_str(config)>>)

branch_shutdown(req) ==
    Return(PyDict([success |-> PyBool(TRUE)]), <<"[PythonPlugin] Shutdown">>)

\* variant: the else branch sets no error
branch_unknown_no_error(action) ==
    Return(PyDict([success |-> PyBool(FALSE)]), <<>>)

\* variant: {action!r} in place of {action}
branch_unknown_repr(action) ==
    Return(PyDict([success |-> PyBool(FALSE),
                   error |-> PyStr("Unknown action: " \o py_repr(action))]), <<>>)

branch_unknown(action) ==
    Return(PyDict([success |-> PyBool(FALSE),
                   error |-> PyStr("Unknown action: " \o py_str(action))]), <<>>)

\* lines 131-168: from request.get("action") to the response
dispatch(req, now) ==
    IF req.t /= "dict" THEN NoAttrGet(req)
    ELSE LET action == dict_get(req, "action", PyNone)
         IN  IF action = PyStr("metadata") THEN branch_metadata(req)
             ELSE IF action = PyStr("execute_hook") THEN branch_execute_hook(req, now)
             ELSE IF action = PyStr("initialize") THEN branch_initialize(req)
             ELSE IF action = PyStr("shutdown") THEN branch_shutdown(req)
             ELSE branch_unknown(action)

\* json.load(sys.stdin): decodes the whole stream, or raises on text that is
\* not one JSON document
json_load(stream) ==
    IF stream.kind = "document" THEN Return(json_decode(stream.doc), <<>>)
    ELSE Raise(stream.error, <<>>)

\* variant: an error response without the success flag
error_response_no_flag(e) ==
    PyDict([error |-> PyStr(e)])

\* lines 175-178
error_response(e) ==
    PyDict([success |-> PyBool(FALSE), error |-> PyStr(e)])

(***************************************************************************)
(* What the host may write to the input stream.                            *)
(***************************************************************************)
\* marks a key the request object does not hold
Absent == [j |-> "absent"]

Request(action, hook_type, context, config) ==
    LET f == [action |-> action, hook_type |-> hook_type,
              context |-> context, config |-> config]
    IN  JObject([k \in {key \in DOMAIN f : f[key] /= Absent} |-> f[k]])

ActionValues ==
    { Absent, JNull, JString("metadata"), JString("execute_hook"),
      JString("initialize"), JString("shutdown"), JString("bogus_action"),
      JString(""), JNumber(7), JArray(<<JString("metadata")>>) }

HookTypeValues ==
    { Absent, JNull, JString(""), JString("PreCommand"), JString("PostCommand"),
      JString("PreRun"), JString("PostRun"), JString("TotallyUnknownHook"),
      JNumber(0), JNumber(7), JBool(FALSE), JBool(TRUE), JArray(<<>>),
      JArray(<<JString("PreRun")>>), JObject(EmptyMap),
      JObject([command |-> JString("ls")]) }

ContextValues ==
    { Absent, JNull, JObject(EmptyMap), JObject([command |-> JString("ls")]),
      JObject([command |-> JArray(<<JString("git"), JNumber(1)>>),
               args |-> JArray(<<JString("-l")>>)]),
      JString("ls"), JArray(<<>>) }

ConfigValues == { Absent, JObject([debug |-> JBool(TRUE)]), JNumber(5) }

\* well-formed documents
Documents ==
    { Request(a, h, c, g) : a \in ActionValues, h \in HookTypeValues,
                            c \in ContextValues, g \in ConfigValues }
    \cup { JArray(<<JNumber(1)>>), JString("metadata"), JNull, JNumber(7) }

\* texts json.load rejects, with the message of the exception it raises
Malformed ==
    { [kind |-> "text", text |-> "",
       error |-> "Expecting value: line 1 column 1 (char 0)"],
      [kind |-> "text", text |-> "nope",
       error |-> "Expecting value: line 1 column 1 (char 0)"],
      [kind |-> "text", text |-> "{\"action\":\"shutdown\"} {\"action\":\"metadata\"}",
       error |-> "Extra data: line 1 column 23 (char 22)"] }

Inputs == { [kind |-> "document", doc |-> d] : d \in Documents } \cup Malformed

\* a local of main() that has not been assigned
Unbound == [t |-> "unbound"]

(***************************************************************************)
(* The process.                                                            *)
(***************************************************************************)
Init ==
    /\ stdin \in Inputs
    /\ reads = 0
    /\ pc = "load"
    /\ request = Unbound
    /\ response = Unbound
    /\ caught = <<>>
    /\ stdout_buf = <<>>
    /\ stdout = <<>>
    /\ stderr = <<>>
    /\ exit_status = <<>>

\* line 130: request = json.load(sys.stdin)
Load ==
    /\ pc = "load"
    /\ reads' = reads + 1
    /\ LET r == json_load(stdin)
       IN  IF r.raised
           THEN /\ caught' = <<r.exc>>
                /\ pc' = "except"
                /\ UNCHANGED request
           ELSE /\ request' = r.value
                /\ pc' = "dispatch"
                /\ UNCHANGED caught
    /\ UNCHANGED <<stdin, response, stdout_buf, stdout, stderr, exit_status>>

\* lines 131-168: the dispatch, with the handler it calls
Dispatch ==
    /\ pc = "dispatch"
    /\ \E now \in Clock :
         LET r == dispatch(request, now)
         IN  /\ stderr' = stderr \o r.printed
             /\ IF r.raised
                THEN /\ caught' = <<r.exc>>
                     /\ pc' = "except"
                     /\ UNCHANGED response
                ELSE /\ response' = r.value
                     /\ pc' = "dump"
                     /\ UNCHANGED caught
    /\ UNCHANGED <<stdin, reads, request, stdout_buf, stdout, exit_status>>

\* line 171: json.dump(response, sys.stdout)
Dump ==
    /\ pc = "dump"
    /\ stdout_buf' = Append(stdout_buf, json_encode(response))
    /\ pc' = "flush"
    /\ UNCHANGED <<stdin, reads, request, response, caught, stdout, stderr,
                   exit_status>>

\* variant: main() without the flush of line 172
Flush_skipped ==
    /\ pc = "flush"
    /\ pc' = "return"
    /\ UNCHANGED <<stdin, reads, request, response, caught, stdout_buf, stdout,
                   stderr, exit_status>>

\* line 172: sys.stdout.flush()
Flush ==
    /\ pc = "flush"
    /\ stdout' = stdout \o stdout_buf
    /\ stdout_buf' = <<>>
    /\ pc' = "return"
    /\ UNCHANGED <<stdin, reads, request, response, caught, stderr, exit_status>>

\* main() returns and the script ends: the interpreter flushes what is
\* still buffered and exits with status 0
ReturnFromMain ==
    /\ pc = "return"
    /\ stdout' = stdout \o stdout_buf
    /\ stdout_buf' = <<>>
    /\ exit_status' = <<0>>
    /\ pc' = "exited"
    /\ UNCHANGED <<stdin, reads, request, response, caught, stderr>>

\* lines 174-178: except Exception as e: error_response = {...}
Except ==
    /\ pc = "except"
    /\ response' = error_response(caught[1])
    /\ pc' = "dump_error"
    /\ UNCHANGED <<stdin, reads, request, caught, stdout_buf, stdout, stderr,
                   exit_status>>

\* line 179: json.dump(error_response, sys.stdout)
DumpError ==
    /\ pc = "dump_error"
    /\ stdout_buf' = Append(stdout_buf, json_encode(response))
    /\ pc' = "flush_error"
    /\ UNCHANGED <<stdin, reads, request, response, caught, stdout, stderr,
                   exit_status>>

\* line 180: sys.stdout.flush()
FlushError ==
    /\ pc = "flush_error"
    /\ stdout' = stdout \o stdout_buf
    /\ stdout_buf' = <<>>
    /\ pc' = "sys_exit"
    /\ UNCHANGED <<stdin, reads, request, response, caught, stderr, exit_status>>

\* line 181: sys.exit(1); the interpreter flushes what is still buffered
SysExit ==
    /\ pc = "sys_exit"
    /\ stdout' = stdout \o stdout_buf
    /\ stdout_buf' = <<>>
    /\ exit_status' = <<1>>
    /\ pc' = "exited"
    /\ UNCHANGED <<stdin, reads, request, response, caught, stderr>>

Next ==
    \/ Load
    \/ Dispatch
    \/ Dump
    \/ Flush
    \/ ReturnFromMain
    \/ Except
    \/ DumpError
    \/ FlushError
    \/ SysExit

Spec == Init /\ [][Next]_vars

\* the process runs to completion once started: it is single-threaded and
\* its input is already on the stream
FairSpec == Spec /\ WF_vars(Next)

(***************************************************************************)
(* Vocabulary of the properties.                                           *)
(***************************************************************************)
\* the request is a JSON object
IsRequest == stdin.kind = "document" /\ stdin.doc.j = "object"

\* the value of key k of the request, Absent when it has none
Field(k) ==
    IF IsRequest /\ k \in DOMAIN stdin.doc.members
    THEN stdin.doc.members[k] ELSE Absent

\* member k of the JSON object d, Absent when d has none
Member(d, k) ==
    IF d.j = "object" /\ k \in DOMAIN d.members THEN d.members[k] ELSE Absent

Has(d, k) == Member(d, k) /= Absent

Terminated == exit_status /= <<>>

\* everything written to the output stream so far, flushed or not
Written == stdout \o stdout_buf

KnownHooks ==
    { JString("PreCommand"), JString("PostCommand"),
      JString("PreRun"), JString("PostRun") }

KnownActions ==
    { JString("metadata"), JString("execute_hook"),
      JString("initialize"), JString("shutdown") }

\* the JSON values Python treats as false
Falsy == { JNull, JBool(FALSE), JNumber(0), JString(""),
           JArray(<<>>), JObject(EmptyMap) }

\* the host observes exactly the document d, and the process has exited with
\* status code
Answers(d, code) ==
    /\ stdout = <<d>>
    /\ stdout_buf = <<>>
    /\ exit_status = <<code>>

ResponseShape(d) ==
    /\ d.j = "object"
    /\ Member(d, "success") \in {JBool(TRUE), JBool(FALSE)}
    /\ (Member(d, "success") = JBool(FALSE)) <=> Has(d, "error")
    /\ ~(Has(d, "metadata") /\ Has(d, "result"))
    /\ Has(d, "metadata") =>
         Field("action") = JString("metadata") /\ Member(d, "success") = JBool(TRUE)
    /\ Has(d, "result") =>
         Field("action") = JString("execute_hook") /\ Member(d, "success") = JBool(TRUE)

(***************************************************************************)
(* C1: every response written to the output stream has success = false     *)
(* iff it has an error; holds at most one of metadata and result; holds    *)
(* metadata only for action metadata with success = true, and result only  *)
(* for action execute_hook with success = true.                            *)
(***************************************************************************)
C1_ResponseInvariant ==
    \A i \in 1..Len(Written) : ResponseShape(Written[i])

C1_Witness ==
    /\ Len(stdout) = 1
    /\ Has(stdout[1], "error")
    /\ Field("action") = JString("execute_hook")
    /\ exit_status = <<0>>

(***************************************************************************)
(* C2: the exit status is non-zero iff an exception was caught by the      *)
(* outermost except of main; a request the dispatcher answers itself       *)
(* (success = true, missing hook_type, unknown or missing action) ends     *)
(* with status 0, whatever its action is.                                  *)
(***************************************************************************)
C2_ExitStatus ==
    Terminated =>
      /\ (exit_status /= <<0>>) <=> (caught /= <<>>)
      /\ (IsRequest /\ Field("action") /= JString("execute_hook"))
           => exit_status = <<0>>
      /\ (IsRequest /\ Field("hook_type") = Absent) => exit_status = <<0>>
      /\ (Len(stdout) = 1 /\ Member(stdout[1], "success") = JBool(TRUE))
           => exit_status = <<0>>

C2_Witness ==
    /\ exit_status = <<0>>
    /\ Field("action") = JString("execute_hook")
    /\ Field("hook_type") = Absent
    /\ Len(stdout) = 1
    /\ Member(stdout[1], "success") = JBool(FALSE)

IsErrorBody(d) ==
    /\ d.j = "object"
    /\ DOMAIN d.members = {"success", "error"}
    /\ d.members.success = JBool(FALSE)
    /\ d.members.error.j = "string"
    /\ caught /= <<>>
    /\ d.members.error.s = caught[1]

(***************************************************************************)
(* C3: when the process exits with a non-zero status, as it does on input  *)
(* that is not valid JSON, the output stream holds one JSON object with    *)
(* success = false and the error description, written and flushed before   *)
(* the exit.                                                               *)
(***************************************************************************)
C3_ErrorExit ==
    /\ (pc = "sys_exit" \/ (Terminated /\ exit_status /= <<0>>)) =>
         /\ stdout_buf = <<>>
         /\ Len(stdout) = 1
         /\ IsErrorBody(stdout[1])
    /\ (Terminated /\ stdin.kind = "text") => exit_status = <<1>>

C3_Witness ==
    /\ stdin.kind = "text"
    /\ stdin.text = "nope"
    /\ exit_status = <<1>>
    /\ Len(stdout) = 1
    /\ IsErrorBody(stdout[1])

\* the response wraps a hook result that lets the host continue
ContinuesExecution(d) ==
    /\ d.j = "object"
    /\ DOMAIN d.members = {"success", "result"}
    /\ d.members.success = JBool(TRUE)
    /\ Member(d.members.result, "continue_execution") = JBool(TRUE)

\* the request asks for one of the four hooks the plugin handles
AsksKnownHook ==
    /\ Field("action") = JString("execute_hook")
    /\ Field("hook_type") \in KnownHooks

(***************************************************************************)
(* C4 as stated: for action execute_hook with a hook_type of the known     *)
(* vocabulary the response has success = true and                          *)
(* result.continue_execution = true and the exit status is 0, whatever     *)
(* the other fields of the request are.                                    *)
(***************************************************************************)
C4_AsStated ==
    (Terminated /\ AsksKnownHook) =>
      /\ exit_status = <<0>>
      /\ Len(stdout) = 1
      /\ ContinuesExecution(stdout[1])

(***************************************************************************)
(* C4 amended: the same, for requests whose context is absent or a JSON    *)
(* object; config and the members of context are free.                     *)
(***************************************************************************)
C4_KnownHookContinues ==
    (Terminated /\ AsksKnownHook /\ Field("context").j \in {"absent", "object"}) =>
      /\ Answers(stdout[1], 0)
      /\ ContinuesExecution(stdout[1])

C4_Witness ==
    /\ Terminated
    /\ Field("hook_type") = JString("PreCommand")
    /\ Has(Field("context"), "args")
    /\ Field("config") = JNumber(5)
    /\ Len(stdout) = 1
    /\ ContinuesExecution(stdout[1])

\* the neutral hook result
NeutralResult ==
    JObject([modified_env |-> JObject(EmptyMap),
             plugin_data |-> JObject(EmptyMap),
             continue_execution |-> JBool(TRUE),
             message |-> JNull])

NeutralResponse == JObject([success |-> JBool(TRUE), result |-> NeutralResult])

(***************************************************************************)
(* C5 as stated: for action execute_hook with a hook_type that is present  *)
(* but is not a key of the handler mapping, the response has               *)
(* success = true and the neutral default result.                          *)
(***************************************************************************)
C5_AsStated ==
    ( /\ Terminated
      /\ Field("action") = JString("execute_hook")
      /\ Field("hook_type") /= Absent
      /\ Field("hook_type") \notin KnownHooks )
    => (Len(stdout) = 1 /\ stdout[1] = NeutralResponse)

(***************************************************************************)
(* C5 amended: the same, for a hook_type that Python treats as true (not   *)
(* null, false, 0, "", [] or {}) and that is not an array or an object;    *)
(* the exit status is then 0.                                              *)
(***************************************************************************)
C5_UnknownHookNeutral ==
    ( /\ Terminated
      /\ Field("action") = JString("execute_hook")
      /\ Field("hook_type") /= Absent
      /\ Field("hook_type") \notin KnownHooks
      /\ Field("hook_type") \notin Falsy
      /\ Field("hook_type").j \notin {"array", "object"} )
    => Answers(NeutralResponse, 0)

C5_Witness ==
    /\ Field("action") = JString("execute_hook")
    /\ Field("hook_type") = JString("TotallyUnknownHook")
    /\ Field("context") = JNull
    /\ Answers(NeutralResponse, 0)

MissingHookType ==
    JObject([success |-> JBool(FALSE), error |-> JString("Missing hook_type")])

\* the response wraps a hook result under success = true
WrapsResult(d) ==
    /\ d.j = "object"
    /\ DOMAIN d.members = {"success", "result"}
    /\ d.members.success = JBool(TRUE)
    /\ d.members.result.j = "object"

(***************************************************************************)
(* C6 as stated: for action execute_hook the response is exactly           *)
(* {success:false, error:"Missing hook_type"} with exit status 0 if        *)
(* hook_type is absent, and in every other case the outcome of the hook    *)
(* registry wrapped as {success:true, result:...}.                         *)
(***************************************************************************)
C6_AsStated ==
    (Terminated /\ Field("action") = JString("execute_hook")) =>
      IF Field("hook_type") = Absent
      THEN Answers(MissingHookType, 0)
      ELSE Len(stdout) = 1 /\ WrapsResult(stdout[1])

\* the hook registry raises: the lookup of an array or object fails, and so
\* does a handler whose context is neither absent nor an object
RegistryRaises ==
    \/ Field("hook_type").j \in {"array", "object"}
    \/ /\ Field("hook_type") \in KnownHooks
       /\ Field("context").j \notin {"absent", "object"}

(***************************************************************************)
(* C6 amended: for action execute_hook the response is exactly             *)
(* {success:false, error:"Missing hook_type"} with exit status 0 if        *)
(* hook_type is absent or a value Python treats as false (null, false, 0,  *)
(* "", [], {}); otherwise the dispatcher delegates to the hook registry    *)
(* and wraps its outcome as {success:true, result:...} with exit status 0, *)
(* except when the registry raises (hook_type an array or object, or a     *)
(* known hook with a context that is not an object): then the response is  *)
(* {success:false, error:...} and the exit status is 1.                    *)
(***************************************************************************)
C6_MissingHookType ==
    (Terminated /\ Field("action") = JString("execute_hook")) =>
      IF Field("hook_type") \in Falsy \cup {Absent}
      THEN Answers(MissingHookType, 0)
      ELSE IF RegistryRaises
      THEN Answers(stdout[1], 1) /\ IsErrorBody(stdout[1])
      ELSE Answers(stdout[1], 0) /\ WrapsResult(stdout[1])

C6_Witness ==
    /\ Field("action") = JString("execute_hook")
    /\ Field("hook_type") = JString("")
    /\ Answers(MissingHookType, 0)

\* the text Python substitutes for {action} when the request holds the value a
\* under "action" (None when it holds none)
ActionText(a) ==
    CASE a = Absent -> "None"
      [] a = JNull -> "None"
      [] a = JString("bogus_action") -> "bogus_action"
      [] a = JString("") -> ""
      [] a = JNumber(7) -> "7"
      [] a = JArray(<<JString("metadata")>>) -> "['metadata']"
      [] OTHER -> py_str(json_decode(a))

(***************************************************************************)
(* C7: for every request whose action is missing or is any value other     *)
(* than metadata, execute_hook, initialize and shutdown, the response is   *)
(* exactly {success:false, error:"Unknown action: <value>"}, <value> being *)
(* the action supplied, without metadata or result, and the exit status    *)
(* is 0.                                                                   *)
(***************************************************************************)
C7_UnknownAction ==
    (Terminated /\ IsRequest /\ Field("action") \notin KnownActions) =>
      Answers(JObject([success |-> JBool(FALSE),
                       error |-> JString("Unknown action: "
                                           \o ActionText(Field("action")))]), 0)

C7_Witness ==
    /\ IsRequest
    /\ Field("action") = JArray(<<JString("metadata")>>)
    /\ Field("hook_type") = JString("PreRun")
    /\ Answers(JObject([success |-> JBool(FALSE),
                        error |-> JString("Unknown action: ['metadata']")]), 0)

\* the descriptor of the plugin, as the host reads it
Descriptor ==
    JObject([id |-> JString("python-example"),
             name |-> JString("Python Example Plugin"),
             version |-> JString("1.0.0"),
             description |->
               JString("Python \\u5916\\u90e8\\u63d2\\u4ef6\\u793a\\u4f8b"),
             author |-> JString("EnvCLI Team"),
             plugin_type |-> JString("ExternalExecutable"),
             hooks |-> JArray(<<JString("PreCommand"), JString("PostCommand"),
                                JString("PreRun"), JString("PostRun")>>),
             extensions |-> JArray(<<>>),
             config_schema |-> JNull,
             enabled |-> JBool(TRUE),
             dependencies |-> JArray(<<>>),
             platforms |-> JArray(<<JString("Windows"), JString("Linux"),
                                    JString("MacOS")>>),
             envcli_version |-> JNull])

(***************************************************************************)
(* C8: for every request with action metadata the response is              *)
(* {success:true, metadata:<the fixed descriptor>}, whatever hook_type,    *)
(* context and config the request holds; every such invocation therefore   *)
(* answers with the same document.                                         *)
(***************************************************************************)
C8_MetadataFixed ==
    (Terminated /\ Field("action") = JString("metadata")) =>
      Answers(JObject([success |-> JBool(TRUE), metadata |-> Descriptor]), 0)

C8_Witness ==
    /\ Field("action") = JString("metadata")
    /\ Field("hook_type") = JArray(<<JString("PreRun")>>)
    /\ Field("context") = JNull
    /\ Field("config") = JObject([debug |-> JBool(TRUE)])
    /\ Answers(JObject([success |-> JBool(TRUE), metadata |-> Descriptor]), 0)

\* read, then dispatch, then write, then flush, then terminate
C9_Order ==
    /\ reads <= 1
    /\ Len(Written) <= 1
    /\ (pc \notin {"load"}) => reads = 1
    /\ (Written /= <<>>) => pc \notin {"load", "dispatch", "dump", "except", "dump_error"}
    /\ (stdout /= <<>>) => pc \in {"return", "sys_exit", "exited"}
    /\ Terminated <=> pc = "exited"
    /\ Terminated => (Len(stdout) = 1 /\ stdout_buf = <<>> /\ stdout[1].j = "object")

\* a step changes the streams and the exit status only in that order
C9_Step ==
    /\ reads' /= reads => (reads = 0 /\ Written = <<>>)
    /\ Written' /= Written => (Written = <<>> /\ Len(Written') = 1 /\ reads = 1)
    /\ stdout' /= stdout => (stdout' = stdout_buf /\ stdout = <<>>)
    /\ exit_status' /= exit_status =>
         (exit_status = <<>> /\ Len(stdout) = 1 /\ stdout_buf = <<>> /\ reads = 1)
    /\ Terminated => UNCHANGED vars

FullyPopulated(r) ==
    /\ r.j = "object"
    /\ DOMAIN r.members =
         {"modified_env", "plugin_data", "continue_execution", "message"}
    /\ r.members.modified_env.j = "object"
    /\ r.members.plugin_data.j = "object"
    /\ r.members.continue_execution.j \in {"true", "false"}
    /\ r.members.message.j \in {"string", "null"}

(***************************************************************************)
(* C10: in every response with success = true for action execute_hook,     *)
(* for known and unrecognized hooks alike, result holds the four fields    *)
(* modified_env, plugin_data, continue_execution and message, and          *)
(* modified_env and plugin_data are mappings, not absent and not null.     *)
(***************************************************************************)
C10_ResultPopulated ==
    \A i \in 1..Len(Written) :
      ( /\ Field("action") = JString("execute_hook")
        /\ Member(Written[i], "success") = JBool(TRUE) )
      => FullyPopulated(Member(Written[i], "result"))

C10_Witness ==
    /\ Field("action") = JString("execute_hook")
    /\ Field("hook_type") = JNumber(7)
    /\ Len(stdout) = 1
    /\ Member(stdout[1], "success") = JBool(TRUE)
    /\ FullyPopulated(Member(stdout[1], "result"))

====
